---- MODULE Spec2Model ----
(***************************************************************************)
(* The Casino-side wallet ledger and callback surface of                   *)
(* casino-integration: CasinoService (src/casino/service.ts) behind the    *)
(* routes of src/casino/routes.ts, over the tables of database/schema.sql. *)
(*                                                                         *)
(* Every request is a process that advances one database call (one await)  *)
(* at a time, so that concurrent requests interleave exactly at the        *)
(* suspension points of the code.  The variables balance, sessions and     *)
(* ledger hold the COMMITTED rows; what an open transaction has written    *)
(* but not committed lives in the process that owns it.                    *)
(***************************************************************************)
EXTENDS Integers, Sequences, FiniteSets, TLC

VARIABLES
    balance,      \* casino_wallets: wallet id -> committed playable_balance
    sessions,     \* casino_game_sessions: issued token -> the session row
    ledger,       \* casino_transactions, committed rows in insertion order
    lockHolders,  \* wallet id -> the open transactions holding its row lock
    procs         \* the in-flight requests: position, request body, locals, reply

vars == <<balance, sessions, ledger, lockHolders, procs>>

-----------------------------------------------------------------------------
(* Bounds of the model *)

NProcs == 2          \* requests in flight at the same time
MaxTid == 2          \* external transaction ids are 1..MaxTid
MaxAmount == 1       \* request amounts range over -1..MaxAmount
MaxRelated == 0      \* a credit's relatedTransactionId is absent (0) or in 1..MaxRelated
MaxLaunches == 1     \* launches per user
MaxSessions == 2     \* sessions created through POST /casino/launchGame
SeedBalance1 == 1    \* player1's seeded balance (scaled down from 10000000)
SeedBalance2 == 1    \* player2's seeded balance (scaled down from 5000000)

Procs == 1..NProcs
Tids == 1..MaxTid
Amounts == (-1)..MaxAmount
RelatedIds == 0..MaxRelated
Users == {"player1", "player2"}
\* a session token is fresh and unguessable: the k-th launch of user u issues <<u, k>>
TokensOf(users) == users \X (1..MaxLaunches)
Tokens == TokensOf(Users)
NoToken == <<>>
LaunchCurrencies == {"USD"}

-----------------------------------------------------------------------------
(* Rows and values *)

WalletOf(u, c) == <<u, c>>
NoWallet == <<>>
CurrencyOf(w) == w[2]

NoTxn ==
    [tid |-> 0, kind |-> "none", amount |-> 0, wallet |-> NoWallet, session |-> NoToken,
     related |-> 0, balance_after |-> 0, is_rollback |-> FALSE, cache |-> "none"]

NoSession == [token |-> NoToken, user |-> "none", wallet |-> NoWallet, active |-> FALSE]

NoResp ==
    [status |-> 0, code |-> "", balance |-> 0, currency |-> "",
     rolledBack |-> FALSE, message |-> ""]

\* res.json(response) of the debit, credit and getBalance routes
OkResponse(bal, cur) ==
    [status |-> 200, code |-> "OK", balance |-> bal, currency |-> cur,
     rolledBack |-> FALSE, message |-> ""]

\* res.json(response) of the rollback route
RollbackResponse(bal, cur, rolledBack, message) ==
    [status |-> 200, code |-> "OK", balance |-> bal, currency |-> cur,
     rolledBack |-> rolledBack, message |-> message]

\* new CasinoError(message, code, statusCode)
CasinoError(code, statusCode) == [code |-> code, statusCode |-> statusCode]

\* the error the database driver throws on a violated constraint: it carries
\* the SQLSTATE as its code and no statusCode
PgError(sqlstate) == [code |-> sqlstate, statusCode |-> 0]

\* errorHandler: statusCode || 500, code || 'INTERNAL_ERROR'
errorHandler(err) ==
    [status |-> IF err.statusCode = 0 THEN 500 ELSE err.statusCode,
     code |-> IF err.code = "" THEN "INTERNAL_ERROR" ELSE err.code,
     balance |-> 0, currency |-> "", rolledBack |-> FALSE, message |-> ""]

MsgIdempotent == "Rollback already processed (idempotent response)"
MsgTombstone == "Tombstone recorded - original transaction not found, no balance change"
MsgRollbackOfRollback == "Cannot rollback a rollback transaction"
MsgAlreadyRolledBack == "Transaction was already rolled back"
MsgRolledBack == "Transaction successfully rolled back"

Idle ==
    [pc |-> "idle", op |-> "none", token |-> NoToken, tid |-> 0, amount |-> 0, orig |-> 0,
     related |-> 0, sess |-> NoToken, wallet |-> NoWallet, bal |-> 0, snap |-> NoTxn,
     path |-> "none", resp |-> NoResp, sig |-> <<>>, secret |-> "",
     user |-> "", game |-> "", currency |-> ""]

-----------------------------------------------------------------------------
(* shared/security: signBody and verifySignature.  A string is a sequence of  *)
(* one-character strings, a Buffer a sequence of bytes.                       *)

Secrets == {"s1", "s2"}
NoSecret == ""        \* process.env.X is not set

\* JSON.stringify(body): the members of the body in order, as one payload
JSON_stringify(body) ==
    <<CASE body.op = "getBalance" -> 1 [] body.op = "debit" -> 2
        [] body.op = "credit" -> 3 [] OTHER -> 4,
      IF body.token[1] = "player1" THEN 1 ELSE 2, body.token[2], body.tid,
      body.amount + 1, body.orig, body.related>>

\* crypto.createHmac('sha256', secret).update(payload).digest(): the MAC is
\* taken as collision-free, so the digest spells out payload and key (each
\* byte in 0xa0..0xff, so that its hex form has letters)
hmac(payload, secret) ==
    [i \in 1..(Len(payload) + 1) |->
        160 + (IF i <= Len(payload) THEN payload[i] ELSE IF secret = "s1" THEN 1 ELSE 2)]

HexLower == <<"0", "1", "2", "3", "4", "5", "6", "7", "8", "9", "a", "b", "c", "d", "e", "f">>
HexUpper == <<"0", "1", "2", "3", "4", "5", "6", "7", "8", "9", "A", "B", "C", "D", "E", "F">>

\* digest('hex'): two lower-case digits per byte
RECURSIVE toHex(_)
toHex(bytes) ==
    IF bytes = <<>> THEN <<>>
    ELSE <<HexLower[(Head(bytes) \div 16) + 1], HexLower[(Head(bytes) % 16) + 1]>>
         \o toHex(Tail(bytes))

\* the value of a hex digit of either case, -1 for any other character
HexVal(c) ==
    IF \E i \in 1..16 : HexLower[i] = c \/ HexUpper[i] = c
    THEN (CHOOSE i \in 1..16 : HexLower[i] = c \/ HexUpper[i] = c) - 1
    ELSE 0 - 1

\* Buffer.from(str, 'hex'): decodes pairs of hex digits of either case and
\* stops without an error at the first pair that is not one (a character
\* that is no hex digit, or a single trailing digit)
RECURSIVE BufferFromHex(_)
BufferFromHex(str) ==
    IF Len(str) < 2 \/ HexVal(str[1]) < 0 \/ HexVal(str[2]) < 0 THEN <<>>
    ELSE <<16 * HexVal(str[1]) + HexVal(str[2])>> \o BufferFromHex(SubSeq(str, 3, Len(str)))

signBody(body, secret) == toHex(hmac(JSON_stringify(body), secret))

verifySignatureStringLength(providedSig, body, secret) ==
    IF providedSig = <<>> THEN FALSE
    ELSE LET expectedSig == signBody(body, secret)
             a == BufferFromHex(providedSig)
             b == BufferFromHex(expectedSig) IN
            IF Len(providedSig) # Len(b) THEN FALSE ELSE a = b

\* if (!providedSig) return false; decode both; lengths differ -> false;
\* crypto.timingSafeEqual(a, b)
verifySignature(providedSig, body, secret) ==
    IF providedSig = <<>> THEN FALSE
    ELSE LET expectedSig == signBody(body, secret)
             a == BufferFromHex(providedSig)
             b == BufferFromHex(expectedSig) IN
            IF Len(a) # Len(b) THEN FALSE ELSE a = b

-----------------------------------------------------------------------------
(* Reads of the committed rows *)

getTransactionByExternalIdAny(externalId) ==
    IF ledger # <<>> THEN ledger[1] ELSE NoTxn

\* SELECT * FROM casino_transactions WHERE external_transaction_id = $1
getTransactionByExternalId(externalId) ==
    IF \E i \in DOMAIN ledger : ledger[i].tid = externalId
    THEN ledger[CHOOSE i \in DOMAIN ledger : ledger[i].tid = externalId]
    ELSE NoTxn

getSessionByTokenEnded(token) ==
    IF token \in DOMAIN sessions
    THEN [token |-> token, user |-> sessions[token].user,
          wallet |-> sessions[token].wallet, active |-> TRUE]
    ELSE NoSession

\* SELECT * FROM casino_game_sessions WHERE token = $1 AND is_active = true
getSessionByToken(token) ==
    IF token \in DOMAIN sessions /\ sessions[token].active
    THEN [token |-> token, user |-> sessions[token].user,
          wallet |-> sessions[token].wallet, active |-> TRUE]
    ELSE NoSession

getWalletById(walletId) == balance[walletId]

\* SELECT ... WHERE related_external_transaction_id = $1 AND transaction_type = 'rollback'
existingRollbackForOriginal(originalTransactionId) ==
    {i \in DOMAIN ledger :
        ledger[i].related = originalTransactionId /\ ledger[i].kind = "rollback"}

\* Number(wallet?.playable_balance || existing.balance_after): the fallback is
\* taken when the column value is falsy.  The driver hands BIGINT over as the
\* string "0" (truthy) or, with a numeric type parser installed by the
\* connection module, as the number 0 (falsy); both outcomes are allowed.
DuplicateBalance(playable, balance_after) ==
    IF playable # 0 THEN {playable} ELSE {0, balance_after}

-----------------------------------------------------------------------------
(* The store's constraints and locks *)

\* CONSTRAINT positive_playable_balance CHECK (playable_balance >= 0)
positive_playable_balance(b) == b >= 0

DebitAdmittedUnguarded(playable, amount) == TRUE

\* The debit transaction goes on to commit playable - amount: the funds check
\* of the service passes and the store accepts the UPDATE under its CHECK.
DebitAdmitted(playable, amount) ==
    /\ ~(playable < amount)
    /\ positive_playable_balance(playable - amount)

ForUpdateGrantedNoLock(walletId) == TRUE

\* SELECT ... FOR UPDATE returns once no other open transaction holds the row
ForUpdateGranted(walletId) == lockHolders[walletId] = {}

UniqueViolationNever(externalId) == FALSE

\* UNIQUE (external_transaction_id), against the committed rows
UniqueViolation(externalId) == \E i \in DOMAIN ledger : ledger[i].tid = externalId

\* An INSERT waits while another open transaction holds an uncommitted row
\* with the same unique key
InsertBlocked(p) ==
    \E q \in Procs \ {p} : procs[q].pc = "commit" /\ procs[q].tid = procs[p].tid

ReleaseNothing(p) == lockHolders

\* BEGIN .. COMMIT / ROLLBACK of the connection module: either way the row
\* locks of the transaction are released
Release(p) == [w \in DOMAIN lockHolders |-> lockHolders[w] \ {p}]

-----------------------------------------------------------------------------
(* Initial state: the migrated and seeded database, no request in flight *)

\* the wallets the seed script inserts
SeededWallets ==
    (WalletOf("player1", "USD") :> SeedBalance1) @@ (WalletOf("player2", "USD") :> SeedBalance2)

Init ==
    /\ balance = SeededWallets
    /\ sessions = << >>
    /\ ledger = <<>>
    /\ lockHolders = [w \in DOMAIN SeededWallets |-> {}]
    /\ procs = [p \in Procs |-> Idle]

Set(p, fields) == procs' = [procs EXCEPT ![p] = fields @@ procs[p]]

\* The handler returns or throws: the route has its reply.  path names the
\* branch of the handler that produced it.
Finish(p, path, response) == Set(p, [pc |-> "done", path |-> path, resp |-> response])

Thrown(p, err) == Finish(p, "error", errorHandler(err))

\* Sending a reply touches nothing shared, so it is taken as the very next
\* step after the handler has produced it: nothing else moves meanwhile.
Replying == \E p \in Procs : procs[p].pc = "done"

\* request p is about to make the database call at this label
At(p, label) == ~Replying /\ procs[p].pc = label

\* res.json / errorHandler: the reply leaves and the slot is free again.
Reply(p) ==
    /\ procs[p].pc = "done"
    /\ procs' = [procs EXCEPT ![p] = Idle]
    /\ UNCHANGED <<balance, sessions, ledger, lockHolders>>

-----------------------------------------------------------------------------
(* Session registry *)

LaunchesOf(userId) == Cardinality({t \in DOMAIN sessions : t[1] = userId})

\* launchGame: get or create the wallet of (user, currency), insert a session
launchGame(userId, currency) ==
    /\ ~Replying
    /\ LaunchesOf(userId) < MaxLaunches
    /\ LET walletId == WalletOf(userId, currency)
           sessionToken == <<userId, LaunchesOf(userId) + 1>> IN
        /\ balance' = IF walletId \in DOMAIN balance
                      THEN balance ELSE (walletId :> 0) @@ balance
        /\ lockHolders' = IF walletId \in DOMAIN lockHolders
                          THEN lockHolders ELSE (walletId :> {}) @@ lockHolders
        /\ sessions' = (sessionToken :>
                          [user |-> userId, wallet |-> walletId, active |-> TRUE])
                       @@ sessions
    /\ UNCHANGED <<ledger, procs>>

\* endSession: UPDATE ... SET is_active = false WHERE token = $1
endSession(sessionToken) ==
    /\ ~Replying
    /\ sessionToken \in DOMAIN sessions
    /\ sessions[sessionToken].active
    /\ sessions' = [sessions EXCEPT ![sessionToken].active = FALSE]
    /\ UNCHANGED <<balance, ledger, lockHolders, procs>>

-----------------------------------------------------------------------------
(* Arrival of requests *)

\* The request bodies a behaviour draws from
Request(op, token, tid, amount, orig, related) ==
    [op |-> op, token |-> token, tid |-> tid, amount |-> amount, orig |-> orig,
     related |-> related]

BalanceRequests(tokens) == {Request("getBalance", t, 0, 0, 0, 0) : t \in tokens}

DebitRequests(tokens, tids, amounts) ==
    {Request("debit", t, i, a, 0, 0) : t \in tokens, i \in tids, a \in amounts}

CreditRequests(tokens, tids, amounts, relatedIds) ==
    {Request("credit", t, i, a, 0, r) :
        t \in tokens, i \in tids, a \in amounts, r \in relatedIds}

RollbackRequests(tokens, tids, origs) ==
    {Request("rollback", t, i, 0, o, 0) : t \in tokens, i \in tids, o \in origs}

\* every callback of one player, over the ids 1..MaxTid
AllRequests ==
    LET tokens == TokensOf({"player1"}) IN
        BalanceRequests(tokens)
        \cup DebitRequests(tokens, Tids, 0..MaxAmount)
        \cup CreditRequests(tokens, Tids, Amounts, RelatedIds)
        \cup RollbackRequests(tokens, Tids, Tids)

\* The slots are interchangeable, so a request takes the lowest free one.
Free(p) == procs[p].pc = "idle"

\* a signed, well-formed callback reaches its route handler
Submit(p, requests) ==
    /\ ~Replying
    /\ Free(p)
    /\ \A q \in Procs : q < p => ~Free(q)
    /\ \E r \in requests :
        procs' = [procs EXCEPT ![p] =
                    [pc |-> IF r.op = "getBalance" THEN "gbSession" ELSE "check"]
                    @@ r @@ Idle]
    /\ UNCHANGED <<balance, sessions, ledger, lockHolders>>

-----------------------------------------------------------------------------
(* The signature gate of the four callback routes *)

\* req.body of a request in flight
BodyOf(proc) ==
    Request(proc.op, proc.token, proc.tid, proc.amount, proc.orig, proc.related)

\* the first character of a header in upper case: one bit of one byte
UpperFirst(str) == [str EXCEPT ![1] = HexUpper[HexVal(str[1]) + 1]]

\* the first hex digit of a header replaced by the next one
FlipFirst(str) == [str EXCEPT ![1] = HexLower[((HexVal(str[1]) + 1) % 16) + 1]]

\* the header without its last byte
DropLast(str) == SubSeq(str, 1, Len(str) - 2)

\* what a sender can put into x-provider-signature for the body it sends:
\* nothing, or a signature it made (of this body or of the body before it was
\* altered, under either secret), as it is or damaged on the way
HeadersFor(body) ==
    LET signed == {body, [body EXCEPT !.amount = body.amount + 1]}
        sigs == {signBody(b, s) : b \in signed, s \in Secrets} IN
        {<<>>} \cup sigs
        \cup {UpperFirst(x) : x \in sigs} \cup {x \o <<"z">> : x \in sigs}
        \cup {FlipFirst(x) : x \in sigs} \cup {DropLast(x) : x \in sigs}

\* HTTP 401 of verifyProviderSignature
SignatureInvalid ==
    [status |-> 401, code |-> "SIGNATURE_INVALID", balance |-> 0, currency |-> "",
     rolledBack |-> FALSE, message |-> ""]

\* HTTP 500 { error: 'Server configuration error' }: it has no code
ConfigurationError ==
    [status |-> 500, code |-> "", balance |-> 0, currency |-> "",
     rolledBack |-> FALSE, message |-> ""]

\* a callback arrives with any header, while process.env.PROVIDER_SECRET has
\* any value or none.  The gate reads nothing shared, so these callbacks are
\* taken one at a time.
Callback(p, requests) ==
    /\ \A q \in Procs : Free(q)
    /\ \A q \in Procs : p <= q
    /\ \E r \in requests, secret \in Secrets \cup {NoSecret} :
        \E header \in HeadersFor(r) :
            procs' = [procs EXCEPT ![p] =
                        [pc |-> "gate", sig |-> header, secret |-> secret] @@ r @@ Idle]
    /\ UNCHANGED <<balance, sessions, ledger, lockHolders>>

GateAdmitsMissing(providedSig, body, secret) ==
    providedSig = <<>> \/ verifySignature(providedSig, body, secret)

\* verifySignature(signature || '', req.body, secret)
GateAdmits(providedSig, body, secret) == verifySignature(providedSig, body, secret)

\* verifyProviderSignature, the middleware in front of each callback handler
verifyProviderSignature(p) ==
    /\ At(p, "gate")
    /\ IF procs[p].secret = NoSecret
       THEN Finish(p, "config", ConfigurationError)
       ELSE IF ~GateAdmits(procs[p].sig, BodyOf(procs[p]), procs[p].secret)
            THEN Finish(p, "signature", SignatureInvalid)
            ELSE Set(p, [pc |-> IF procs[p].op = "getBalance" THEN "gbSession" ELSE "check"])
    /\ UNCHANGED <<balance, sessions, ledger, lockHolders>>

-----------------------------------------------------------------------------
(* POST /casino/launchGame, one database or HTTP call at a time *)

\* casino_games and casino_game_providers: read only for the casino service
GamesTable ==
    ("slots" :> [is_active |-> TRUE, provider_id |-> "JAQPOT"])
    @@ ("retired" :> [is_active |-> FALSE, provider_id |-> "JAQPOT"])
    @@ ("blocked" :> [is_active |-> TRUE, provider_id |-> "OFF"])
ProvidersTable ==
    ("JAQPOT" :> [is_disabled |-> FALSE]) @@ ("OFF" :> [is_disabled |-> TRUE])
NoGame == [is_active |-> FALSE, provider_id |-> ""]
NoProvider == [is_disabled |-> TRUE]
NoProviderSession == ""          \* provider_session_id IS NULL

\* what a client can put into the body: "" is a missing member, "ghost" and
\* "nogame" are ids that name no row
LaunchUserIds == {"", "player1", "ghost"}
LaunchGameIds == {"", "slots", "retired", "blocked", "nogame"}
LaunchRequestCurrencies == {"USD", "EUR"}

getUserById(id) == id \in Users
getGameById(id) == IF id \in DOMAIN GamesTable THEN GamesTable[id] ELSE NoGame
getProviderById(id) == IF id \in DOMAIN ProvidersTable THEN ProvidersTable[id] ELSE NoProvider

\* SELECT * FROM casino_wallets WHERE user_id = $1 AND currency_code = $2
getWallet(userId, currency) ==
    LET rows == {w \in DOMAIN balance : w[1] = userId /\ w[2] = currency} IN
        IF rows = {} THEN NoWallet ELSE CHOOSE w \in rows : TRUE

GameUsableInactive(game) == game # NoGame

\* !(!game || !game.is_active)
GameUsable(game) == game # NoGame /\ game.is_active

\* !(!provider || provider.is_disabled)
ProviderUsable(provider) == provider # NoProvider /\ ~provider.is_disabled

WalletUniqueViolationNever(userId, currency) == FALSE

\* UNIQUE (user_id, currency_code) of casino_wallets
WalletUniqueViolation(userId, currency) == getWallet(userId, currency) # NoWallet

\* the route takes the body apart: 400 without a code if a member is missing
launchGame_route(p) ==
    /\ ~Replying
    /\ Free(p)
    /\ \A q \in Procs : q < p => ~Free(q)
    /\ Cardinality(DOMAIN sessions) + Cardinality({q \in Procs : procs[q].op = "launch"})
            < MaxSessions
    /\ \E userId \in LaunchUserIds, gameId \in LaunchGameIds,
          currency \in LaunchRequestCurrencies :
        procs' = [procs EXCEPT ![p] =
                    [op |-> "launch", user |-> userId, game |-> gameId,
                     currency |-> currency,
                     pc |-> IF userId = "" \/ gameId = "" THEN "done" ELSE "user",
                     path |-> IF userId = "" \/ gameId = "" THEN "invalid" ELSE "none",
                     resp |-> IF userId = "" \/ gameId = ""
                              THEN [NoResp EXCEPT !.status = 400] ELSE NoResp]
                    @@ Idle]
    /\ UNCHANGED <<balance, sessions, ledger, lockHolders>>

launchGame_user(p) ==
    /\ At(p, "user")
    /\ IF getUserById(procs[p].user)
       THEN Set(p, [pc |-> "game"])
       ELSE Thrown(p, CasinoError("USER_NOT_FOUND", 404))
    /\ UNCHANGED <<balance, sessions, ledger, lockHolders>>

launchGame_game(p) ==
    /\ At(p, "game")
    /\ IF GameUsable(getGameById(procs[p].game))
       THEN Set(p, [pc |-> "provider"])
       ELSE Thrown(p, CasinoError("GAME_NOT_FOUND", 404))
    /\ UNCHANGED <<balance, sessions, ledger, lockHolders>>

launchGame_provider(p) ==
    /\ At(p, "provider")
    /\ IF ProviderUsable(getProviderById(getGameById(procs[p].game).provider_id))
       THEN Set(p, [pc |-> "getWallet"])
       ELSE Thrown(p, CasinoError("PROVIDER_NOT_FOUND", 404))
    /\ UNCHANGED <<balance, sessions, ledger, lockHolders>>

launchGame_getWallet(p) ==
    /\ At(p, "getWallet")
    /\ LET walletId == getWallet(procs[p].user, procs[p].currency) IN
        IF walletId = NoWallet
        THEN Set(p, [pc |-> "walletInsert"])
        ELSE Set(p, [pc |-> "sessionInsert", wallet |-> walletId,
                     bal |-> getWalletById(walletId)])
    /\ UNCHANGED <<balance, sessions, ledger, lockHolders>>

\* INSERT INTO casino_wallets ... VALUES (uuidv4(), user, currency, 0, 0):
\* a statement of its own, committed at once; the id is fresh (it carries
\* the slot of the request that made it)
launchGame_walletInsert(p) ==
    /\ At(p, "walletInsert")
    /\ LET walletId == <<procs[p].user, procs[p].currency, p>> IN
        IF WalletUniqueViolation(procs[p].user, procs[p].currency)
        THEN /\ Thrown(p, PgError("23505"))
             /\ UNCHANGED <<balance, lockHolders>>
        ELSE /\ balance' = (walletId :> 0) @@ balance
             /\ lockHolders' = (walletId :> {}) @@ lockHolders
             /\ Set(p, [pc |-> "walletRead", wallet |-> walletId])
    /\ UNCHANGED <<sessions, ledger>>

\* wallet = await this.getWalletById(walletId)
launchGame_walletRead(p) ==
    /\ At(p, "walletRead")
    /\ IF procs[p].wallet \in DOMAIN balance
       THEN Set(p, [pc |-> "sessionInsert", bal |-> getWalletById(procs[p].wallet)])
       ELSE Thrown(p, CasinoError("WALLET_ERROR", 500))
    /\ UNCHANGED <<balance, sessions, ledger, lockHolders>>

\* INSERT INTO casino_game_sessions (id, token, user_id, wallet_id, game_id):
\* is_active defaults to true and provider_session_id to NULL
launchGame_sessionInsert(p) ==
    /\ At(p, "sessionInsert")
    /\ LET sessionToken == <<procs[p].user, LaunchesOf(procs[p].user) + 1>> IN
        /\ sessions' = (sessionToken :>
                          [user |-> procs[p].user, wallet |-> procs[p].wallet,
                           active |-> TRUE, provider_session_id |-> NoProviderSession])
                       @@ sessions
        /\ Set(p, [pc |-> "sessionRead", sess |-> sessionToken])
    /\ UNCHANGED <<balance, ledger, lockHolders>>

\* session = await this.getSessionById(sessionId)
launchGame_sessionRead(p) ==
    /\ At(p, "sessionRead")
    /\ IF procs[p].sess \in DOMAIN sessions
       THEN Set(p, [pc |-> "providerCall"])
       ELSE Thrown(p, CasinoError("SESSION_ERROR", 500))
    /\ UNCHANGED <<balance, sessions, ledger, lockHolders>>

ProviderFailureFatal(p) == Thrown(p, [code |-> "", statusCode |-> 0])

\* catch (providerError): console.warn and continue
ProviderFailure(p) == Set(p, [pc |-> "respond", path |-> "providerFailed"])

\* axios.post(provider.api_endpoint + '/launch') within 10 seconds: the
\* provider acknowledges with success, answers success = false, or the call
\* fails (connection error, timeout, error status)
launchGame_providerCall(p) ==
    /\ At(p, "providerCall")
    /\ \/ Set(p, [pc |-> "attach"])
       \/ Set(p, [pc |-> "respond", path |-> "providerRefused"])
       \/ ProviderFailure(p)
    /\ UNCHANGED <<balance, sessions, ledger, lockHolders>>

\* updateSessionProviderSessionId
launchGame_attach(p) ==
    /\ At(p, "attach")
    /\ sessions' = [sessions EXCEPT ![procs[p].sess].provider_session_id = "ps"]
    /\ Set(p, [pc |-> "respond", path |-> "attached"])
    /\ UNCHANGED <<balance, ledger, lockHolders>>

\* res.json({ success: true, sessionId, sessionToken, balance, currency })
launchGame_respond(p) ==
    /\ At(p, "respond")
    /\ Finish(p, procs[p].path, OkResponse(procs[p].bal, CurrencyOf(procs[p].wallet)))
    /\ UNCHANGED <<balance, sessions, ledger, lockHolders>>

launchGame_steps(p) ==
    \/ launchGame_user(p)
    \/ launchGame_game(p)
    \/ launchGame_provider(p)
    \/ launchGame_getWallet(p)
    \/ launchGame_walletInsert(p)
    \/ launchGame_walletRead(p)
    \/ launchGame_sessionInsert(p)
    \/ launchGame_sessionRead(p)
    \/ launchGame_providerCall(p)
    \/ launchGame_attach(p)
    \/ launchGame_respond(p)

-----------------------------------------------------------------------------
(* getBalance *)

getBalance_session(p) ==
    /\ At(p, "gbSession")
    /\ LET session == getSessionByToken(procs[p].token) IN
        IF session.token = NoToken
        THEN Thrown(p, CasinoError("INVALID_SESSION", 401))
        ELSE Set(p, [pc |-> "gbWallet", sess |-> session.token, wallet |-> session.wallet])
    /\ UNCHANGED <<balance, sessions, ledger, lockHolders>>

getBalance_walletUnread(p) ==
    /\ At(p, "gbWallet")
    /\ Finish(p, "read", OkResponse(procs[p].bal, CurrencyOf(procs[p].wallet)))
    /\ UNCHANGED <<balance, sessions, ledger, lockHolders>>

getBalance_wallet(p) ==
    /\ At(p, "gbWallet")
    /\ Finish(p, "read", OkResponse(getWalletById(procs[p].wallet), CurrencyOf(procs[p].wallet)))
    /\ UNCHANGED <<balance, sessions, ledger, lockHolders>>

getBalance(p) == getBalance_session(p) \/ getBalance_wallet(p)

-----------------------------------------------------------------------------
(* processDebit and processCredit *)

IsMoneyOp(p) == procs[p].op \in {"debit", "credit"}

\* the duplicate pre-check, outside any transaction
process_check(p) ==
    /\ At(p, "check")
    /\ IsMoneyOp(p)
    /\ LET existing == getTransactionByExternalId(procs[p].tid) IN
        IF existing.tid # 0
        THEN Set(p, [pc |-> "dupWallet", snap |-> existing])
        ELSE Set(p, [pc |-> "session"])
    /\ UNCHANGED <<balance, sessions, ledger, lockHolders>>

\* the duplicate path: the reply carries the wallet's balance as it is now
process_duplicate(p) ==
    /\ At(p, "dupWallet")
    /\ IsMoneyOp(p)
    /\ LET existing == procs[p].snap IN
        \E b \in DuplicateBalance(getWalletById(existing.wallet), existing.balance_after) :
            Finish(p, "duplicate", OkResponse(b, CurrencyOf(existing.wallet)))
    /\ UNCHANGED <<balance, sessions, ledger, lockHolders>>

InvalidAmountNegativeOnly(op, amount) == amount < 0

InvalidAmountNotPositive(op, amount) == amount <= 0

\* amount <= 0 for a debit, amount < 0 for a credit
InvalidAmount(op, amount) == IF op = "debit" THEN amount <= 0 ELSE amount < 0

process_session(p) ==
    /\ At(p, "session")
    /\ IsMoneyOp(p)
    /\ LET session == getSessionByToken(procs[p].token) IN
        IF session.token = NoToken
        THEN Thrown(p, CasinoError("INVALID_SESSION", 401))
        ELSE IF InvalidAmount(procs[p].op, procs[p].amount)
        THEN Thrown(p, CasinoError("INVALID_AMOUNT", 400))
        ELSE Set(p, [pc |-> "lock", sess |-> session.token, wallet |-> session.wallet])
    /\ UNCHANGED <<balance, sessions, ledger, lockHolders>>

\* BEGIN; SELECT ... FOR UPDATE; the funds check; UPDATE casino_wallets
process_lock(p) ==
    /\ At(p, "lock")
    /\ IsMoneyOp(p)
    /\ LET walletId == procs[p].wallet
           playable == getWalletById(walletId) IN
        /\ ForUpdateGranted(walletId)
        /\ IF procs[p].op = "debit" /\ ~DebitAdmitted(playable, procs[p].amount)
           THEN /\ Thrown(p, CasinoError("INSUFFICIENT_FUNDS", 400))
                /\ UNCHANGED lockHolders
           ELSE /\ Set(p, [pc |-> "insert", bal |-> playable])
                /\ lockHolders' = [lockHolders EXCEPT ![walletId] = @ \cup {p}]
    /\ UNCHANGED <<balance, sessions, ledger>>

NewBalanceRollbackUnchanged(p) ==
    CASE procs[p].op = "debit" -> procs[p].bal - procs[p].amount
      [] procs[p].op = "credit" -> procs[p].bal + procs[p].amount
      [] OTHER -> procs[p].bal

\* the balance the open transaction has written to the wallet row
NewBalance(p) ==
    CASE procs[p].op = "debit" -> procs[p].bal - procs[p].amount
      [] procs[p].op = "credit" -> procs[p].bal + procs[p].amount
      [] OTHER -> procs[p].bal + procs[p].snap.amount

\* INSERT INTO casino_transactions inside the open transaction
process_insert(p) ==
    /\ At(p, "insert")
    /\ ~InsertBlocked(p)
    /\ IF UniqueViolation(procs[p].tid)
       THEN /\ Finish(p, "uniqueViolation", errorHandler(PgError("23505")))
            /\ lockHolders' = Release(p)
       ELSE /\ Set(p, [pc |-> "commit"])
            /\ UNCHANGED lockHolders
    /\ UNCHANGED <<balance, sessions, ledger>>

\* the row the open transaction has inserted
NewEntry(p) ==
    IF procs[p].op = "rollback"
    THEN [tid |-> procs[p].tid, kind |-> "rollback", amount |-> procs[p].snap.amount,
          wallet |-> procs[p].wallet, session |-> procs[p].snap.session,
          related |-> procs[p].orig, balance_after |-> NewBalance(p),
          is_rollback |-> TRUE, cache |-> "response"]
    ELSE [tid |-> procs[p].tid, kind |-> procs[p].op, amount |-> procs[p].amount,
          wallet |-> procs[p].wallet, session |-> procs[p].sess,
          related |-> procs[p].related, balance_after |-> NewBalance(p),
          is_rollback |-> FALSE, cache |-> "response"]

MarkRolledBackNever(rows, externalId) == rows

MarkRolledBackZeroed(rows, externalId) ==
    [i \in DOMAIN rows |->
        IF rows[i].tid = externalId
        THEN [rows[i] EXCEPT !.is_rollback = TRUE, !.amount = 0] ELSE rows[i]]

\* UPDATE casino_transactions SET is_rollback = true WHERE id = originalTxn.id
MarkRolledBack(rows, externalId) ==
    [i \in DOMAIN rows |->
        IF rows[i].tid = externalId THEN [rows[i] EXCEPT !.is_rollback = TRUE] ELSE rows[i]]

\* COMMIT: the wallet row, the flag on the original and the new row become
\* visible together and the lock is released
process_commit(p) ==
    /\ At(p, "commit")
    /\ balance' = [balance EXCEPT ![procs[p].wallet] = NewBalance(p)]
    /\ ledger' = Append(IF procs[p].op = "rollback"
                        THEN MarkRolledBack(ledger, procs[p].orig) ELSE ledger,
                        NewEntry(p))
    /\ lockHolders' = Release(p)
    /\ Finish(p, "fresh",
              IF procs[p].op = "rollback"
                 THEN RollbackResponse(NewBalance(p), CurrencyOf(procs[p].wallet),
                                       TRUE, MsgRolledBack)
                 ELSE OkResponse(NewBalance(p), CurrencyOf(procs[p].wallet)))
    /\ UNCHANGED sessions

processDebitCredit(p) ==
    \/ process_check(p)
    \/ process_duplicate(p)
    \/ process_session(p)
    \/ process_lock(p)
    \/ process_insert(p)
    \/ process_commit(p)

-----------------------------------------------------------------------------
(* processRollback *)

\* self-idempotency: the lookup of the rollback's own transactionId
processRollback_check(p) ==
    /\ At(p, "check")
    /\ procs[p].op = "rollback"
    /\ LET existingRollback == getTransactionByExternalId(procs[p].tid) IN
        IF existingRollback.tid # 0
        THEN Set(p, [pc |-> "dupWallet", snap |-> existingRollback])
        ELSE Set(p, [pc |-> "orig"])
    /\ UNCHANGED <<balance, sessions, ledger, lockHolders>>

processRollback_duplicate(p) ==
    /\ At(p, "dupWallet")
    /\ procs[p].op = "rollback"
    /\ LET existingRollback == procs[p].snap IN
        \E b \in DuplicateBalance(getWalletById(existingRollback.wallet),
                                  existingRollback.balance_after) :
            Finish(p, "duplicate",
                   RollbackResponse(b, CurrencyOf(existingRollback.wallet),
                                       TRUE, MsgIdempotent))
    /\ UNCHANGED <<balance, sessions, ledger, lockHolders>>

\* the lookup of the original, and the branch on what it is
processRollback_original(p) ==
    /\ At(p, "orig")
    /\ LET originalTxn == getTransactionByExternalId(procs[p].orig) IN
        IF originalTxn.tid = 0
        THEN Set(p, [pc |-> "tombSession"])
        ELSE IF originalTxn.is_rollback
        THEN Set(p, [pc |-> "rbWallet", snap |-> originalTxn])
        ELSE Set(p, [pc |-> "existingRb", snap |-> originalTxn])
    /\ UNCHANGED <<balance, sessions, ledger, lockHolders>>

\* tombstone rule: the session is resolved to get a wallet
processRollback_tombSession(p) ==
    /\ At(p, "tombSession")
    /\ LET session == getSessionByToken(procs[p].token) IN
        IF session.token = NoToken
        THEN Thrown(p, CasinoError("INVALID_SESSION", 401))
        ELSE Set(p, [pc |-> "tombWallet", sess |-> session.token, wallet |-> session.wallet])
    /\ UNCHANGED <<balance, sessions, ledger, lockHolders>>

\* the wallet is read without a lock
processRollback_tombWallet(p) ==
    /\ At(p, "tombWallet")
    /\ Set(p, [pc |-> "tombInsert", bal |-> getWalletById(procs[p].wallet)])
    /\ UNCHANGED <<balance, sessions, ledger, lockHolders>>

MarkerEntryUnflagged(p, session, cache) ==
    [tid |-> procs[p].tid, kind |-> "rollback", amount |-> 0,
     wallet |-> procs[p].wallet, session |-> session, related |-> procs[p].orig,
     balance_after |-> procs[p].bal, is_rollback |-> FALSE, cache |-> cache]

\* a marker row written by a single autocommitted INSERT
MarkerEntry(p, session, cache) ==
    [tid |-> procs[p].tid, kind |-> "rollback", amount |-> 0,
     wallet |-> procs[p].wallet, session |-> session, related |-> procs[p].orig,
     balance_after |-> procs[p].bal, is_rollback |-> TRUE, cache |-> cache]

processRollback_tombInsert(p) ==
    /\ At(p, "tombInsert")
    /\ ~InsertBlocked(p)
    /\ IF UniqueViolation(procs[p].tid)
       THEN /\ Finish(p, "uniqueViolation", errorHandler(PgError("23505")))
            /\ UNCHANGED ledger
       ELSE /\ ledger' = Append(ledger, MarkerEntry(p, procs[p].sess, "tombstone"))
            /\ Finish(p, "tombstone",
                      RollbackResponse(procs[p].bal, CurrencyOf(procs[p].wallet),
                                       TRUE, MsgTombstone))
    /\ UNCHANGED <<balance, sessions, lockHolders>>

\* the original carries is_rollback: nothing is recorded
processRollback_rollbackOfRollback(p) ==
    /\ At(p, "rbWallet")
    /\ LET walletId == procs[p].snap.wallet IN
        Finish(p, "rollbackOfRollback",
               RollbackResponse(getWalletById(walletId), CurrencyOf(walletId),
                                   FALSE, MsgRollbackOfRollback))
    /\ UNCHANGED <<balance, sessions, ledger, lockHolders>>

\* is there a rollback row naming the original; if not, is the original a credit
processRollback_existingRollback(p) ==
    /\ At(p, "existingRb")
    /\ IF existingRollbackForOriginal(procs[p].orig) # {}
       THEN Set(p, [pc |-> "markWallet", wallet |-> procs[p].snap.wallet])
       ELSE IF procs[p].snap.kind = "credit"
       THEN Thrown(p, CasinoError("CANNOT_ROLLBACK_PAYOUT", 400))
       ELSE Set(p, [pc |-> "rbLock", wallet |-> procs[p].snap.wallet])
    /\ UNCHANGED <<balance, sessions, ledger, lockHolders>>

processRollback_markerWallet(p) ==
    /\ At(p, "markWallet")
    /\ Set(p, [pc |-> "markInsert", bal |-> getWalletById(procs[p].wallet)])
    /\ UNCHANGED <<balance, sessions, ledger, lockHolders>>

processRollback_markerInsert(p) ==
    /\ At(p, "markInsert")
    /\ ~InsertBlocked(p)
    /\ IF UniqueViolation(procs[p].tid)
       THEN /\ Finish(p, "uniqueViolation", errorHandler(PgError("23505")))
            /\ UNCHANGED ledger
       ELSE /\ ledger' = Append(ledger,
                                MarkerEntry(p, procs[p].snap.session, "alreadyRolledBack"))
            /\ Finish(p, "marker",
                      RollbackResponse(procs[p].bal, CurrencyOf(procs[p].wallet),
                                       TRUE, MsgAlreadyRolledBack))
    /\ UNCHANGED <<balance, sessions, lockHolders>>

\* the nominal path: BEGIN; SELECT ... FOR UPDATE on the original's wallet;
\* UPDATE casino_wallets; UPDATE casino_transactions SET is_rollback
processRollback_lock(p) ==
    /\ At(p, "rbLock")
    /\ LET walletId == procs[p].wallet IN
        /\ ForUpdateGranted(walletId)
        /\ Set(p, [pc |-> "insert", bal |-> getWalletById(walletId)])
        /\ lockHolders' = [lockHolders EXCEPT ![walletId] = @ \cup {p}]
    /\ UNCHANGED <<balance, sessions, ledger>>

processRollback(p) ==
    \/ processRollback_check(p)
    \/ processRollback_duplicate(p)
    \/ processRollback_original(p)
    \/ processRollback_tombSession(p)
    \/ processRollback_tombWallet(p)
    \/ processRollback_tombInsert(p)
    \/ processRollback_rollbackOfRollback(p)
    \/ processRollback_existingRollback(p)
    \/ processRollback_markerWallet(p)
    \/ processRollback_markerInsert(p)
    \/ processRollback_lock(p)

-----------------------------------------------------------------------------
(* The system *)

\* the handlers at work on the requests that have arrived
Handle ==
    \E p \in Procs :
        \/ Reply(p)
        \/ getBalance(p)
        \/ processDebitCredit(p)
        \/ processRollback(p)

\* One player: launches, session ends and every callback over 1..MaxTid
Next ==
    \/ \E c \in LaunchCurrencies : launchGame("player1", c)
    \/ \E t \in Tokens : endSession(t)
    \/ \E p \in Procs : Submit(p, AllRequests)
    \/ Handle

Spec == Init /\ [][Next]_vars

\* One player, one bet (id 1) and the rollbacks of it (ids 2 and 3)
RollbackScenarioRequests ==
    LET tokens == TokensOf({"player1"}) IN
        BalanceRequests(tokens)
        \cup DebitRequests(tokens, {1}, {1})
        \cup RollbackRequests(tokens, {2, 3}, {1})

NextRollback ==
    \/ \E c \in LaunchCurrencies : launchGame("player1", c)
    \/ \E t \in Tokens : endSession(t)
    \/ \E p \in Procs : Submit(p, RollbackScenarioRequests)
    \/ Handle

SpecRollback == Init /\ [][NextRollback]_vars

\* Two players, each with a session that stays open, using the same ids
TwoWalletRequests ==
    BalanceRequests(Tokens)
    \cup DebitRequests(Tokens, Tids, {1})
    \cup CreditRequests(Tokens, Tids, {1}, {0})
    \cup RollbackRequests(Tokens, Tids, Tids)

NextWallets ==
    \/ \E u \in Users, c \in LaunchCurrencies : launchGame(u, c)
    \/ \E p \in Procs : Submit(p, TwoWalletRequests)
    \/ Handle

SpecWallets == Init /\ [][NextWallets]_vars

\* One player and one round: the original (id 1) is a bet or a payout, a payout
\* (id 2) may name the bet, and rollbacks (ids 2 and 3) name the original
RoundRequests ==
    LET tokens == TokensOf({"player1"}) IN
        BalanceRequests(tokens)
        \cup DebitRequests(tokens, {1}, {1})
        \cup CreditRequests(tokens, {1}, {1}, {0})
        \cup CreditRequests(tokens, {2}, {1}, {1})
        \cup RollbackRequests(tokens, {2, 3}, {1})

NextRound ==
    \/ \E c \in LaunchCurrencies : launchGame("player1", c)
    \/ \E p \in Procs : Submit(p, RoundRequests)
    \/ Handle

SpecRound == Init /\ [][NextRound]_vars

\* One player, one bet (id 1), one payout (id 2) and the rollbacks of the bet
\* (ids 2 and 3), each callback passing the signature gate first
GateRequests ==
    LET tokens == TokensOf({"player1"}) IN
        BalanceRequests(tokens)
        \cup DebitRequests(tokens, {1}, {1})
        \cup CreditRequests(tokens, {2}, {1}, {0})
        \cup RollbackRequests(tokens, {2, 3}, {1})

NextGate ==
    \/ \E c \in LaunchCurrencies : launchGame("player1", c)
    \/ \E p \in Procs : Callback(p, GateRequests)
    \/ \E p \in Procs : verifyProviderSignature(p)
    \/ Handle

SpecGate == Init /\ [][NextGate]_vars

\* The round of the third simulation: two bets (ids 1 and 2), a payout (id 3)
\* on the second bet and the rollback (id 4) of the first bet
Scenario3 ==
    LET token == <<"player1", 1>> IN
        <<Request("debit", token, 1, 2000, 0, 0),
          Request("debit", token, 2, 1000, 0, 0),
          Request("credit", token, 3, 3000, 0, 2),
          Request("rollback", token, 4, 0, 1, 0)>>

\* the player starts the round with $100
InitScenario ==
    /\ balance = [SeededWallets EXCEPT ![WalletOf("player1", "USD")] = 10000]
    /\ sessions = << >>
    /\ ledger = <<>>
    /\ lockHolders = [w \in DOMAIN SeededWallets |-> {}]
    /\ procs = [p \in Procs |-> Idle]

\* simulateRound of the provider: one awaited callback after the other, each
\* sent once the one before it has been answered
ScenarioCall(p, scenario) ==
    /\ ~Replying
    /\ Free(p)
    /\ \A q \in Procs : q < p => ~Free(q)
    /\ scenario[1].token \in DOMAIN sessions
    /\ \A q \in Procs : procs[q].op \in {"none", "getBalance"}
    /\ Len(ledger) < Len(scenario)
    /\ procs' = [procs EXCEPT ![p] = [pc |-> "check"] @@ scenario[Len(ledger) + 1] @@ Idle]
    /\ UNCHANGED <<balance, sessions, ledger, lockHolders>>

\* the steps of the handlers that a round of first-time ids with known
\* originals takes: no pre-check finds a row, so the steps of the duplicate,
\* tombstone and marker branches are never enabled
HandleRound ==
    \E p \in Procs :
        \/ Reply(p)
        \/ getBalance(p)
        \/ process_check(p)
        \/ process_session(p)
        \/ process_lock(p)
        \/ process_insert(p)
        \/ process_commit(p)
        \/ processRollback_check(p)
        \/ processRollback_original(p)
        \/ processRollback_existingRollback(p)
        \/ processRollback_lock(p)

NextScenario3 ==
    \/ \E c \in LaunchCurrencies : launchGame("player1", c)
    \/ \E p \in Procs : Submit(p, BalanceRequests(TokensOf({"player1"})))
    \/ \E p \in Procs : ScenarioCall(p, Scenario3)
    \/ HandleRound

SpecScenario3 == InitScenario /\ [][NextScenario3]_vars

\* Launches of player1 and of unknown users, two at a time, with getBalance
\* polls on the sessions they create
NextLaunch ==
    \/ \E p \in Procs : launchGame_route(p)
    \/ \E p \in Procs : launchGame_steps(p)
    \/ \E p \in Procs : Submit(p, BalanceRequests(Users \X (1..MaxSessions)))
    \/ \E p \in Procs : Reply(p) \/ getBalance(p)

SpecLaunch == Init /\ [][NextLaunch]_vars

\* Two players with open sessions; each sends a bet (id 1) and a rollback
\* (id 2) of it, so that requests on the two wallets share their ids, and the
\* first player also polls the balance and sends a second rollback (id 3)
ProgressRequests ==
    BalanceRequests(TokensOf({"player1"}))
    \cup DebitRequests(Tokens, {1}, {1})
    \cup RollbackRequests(Tokens, {2}, {1})
    \cup RollbackRequests(TokensOf({"player1"}), {3}, {1})

NextProgress ==
    \/ \E u \in Users, c \in LaunchCurrencies : launchGame(u, c)
    \/ \E p \in Procs : Submit(p, ProgressRequests)
    \/ Handle

\* the next database call or the reply of the request in slot p
Continue(p) == Reply(p) \/ getBalance(p) \/ processDebitCredit(p) \/ processRollback(p)

\* The event loop resumes every continuation whose awaited call has returned
\* and the store hands a freed row lock to a waiting transaction: a request
\* that can go on again and again does go on.
SpecProgress == Init /\ [][NextProgress]_vars /\ \A p \in Procs : SF_vars(Continue(p))

-----------------------------------------------------------------------------
(* Properties *)

Done(p) == procs[p].pc = "done"

Entries == {ledger[i] : i \in DOMAIN ledger}

\* what an entry did to its wallet
Signed(e) == IF e.kind = "debit" THEN 0 - e.amount ELSE e.amount

RECURSIVE LedgerSum(_, _)
LedgerSum(walletId, n) ==
    IF n = 0 THEN 0
    ELSE LedgerSum(walletId, n - 1)
         + (IF ledger[n].wallet = walletId THEN Signed(ledger[n]) ELSE 0)

StartBalance(walletId) ==
    IF walletId \in DOMAIN SeededWallets THEN SeededWallets[walletId] ELSE 0

\* the reply the request that wrote entry e got
FirstResponse(e) ==
    CASE e.kind \in {"debit", "credit"} ->
            OkResponse(e.balance_after, CurrencyOf(e.wallet))
      [] e.cache = "tombstone" ->
            RollbackResponse(e.balance_after, CurrencyOf(e.wallet), TRUE, MsgTombstone)
      [] e.cache = "alreadyRolledBack" ->
            RollbackResponse(e.balance_after, CurrencyOf(e.wallet), TRUE, MsgAlreadyRolledBack)
      [] OTHER ->
            RollbackResponse(e.balance_after, CurrencyOf(e.wallet), TRUE, MsgRolledBack)

\* C1: in every committed state every wallet's playable_balance is >= 0.
C1_BalanceNonNegative == \A w \in DOMAIN balance : balance[w] >= 0

\* C1 witness: a debit has emptied the wallet and a later debit on it was
\* refused for insufficient funds.
C1_Witness ==
    \E p \in Procs :
        /\ Done(p)
        /\ procs[p].op = "debit"
        /\ procs[p].resp.code = "INSUFFICIENT_FUNDS"
        /\ balance[procs[p].wallet] = 0
        /\ \E e \in Entries : e.kind = "debit" /\ e.wallet = procs[p].wallet

\* C2: the ledger holds at most one entry per external_transaction_id, over
\* all kinds and all wallets.
C2_UniqueExternalId ==
    \A i, j \in DOMAIN ledger : ledger[i].tid = ledger[j].tid => i = j

\* C2 witness: a request on one wallet lost the insert race against an entry
\* with the same id on another wallet.
C2_Witness ==
    \E p \in Procs :
        /\ Done(p)
        /\ procs[p].path = "uniqueViolation"
        /\ \E e \in Entries : e.tid = procs[p].tid /\ e.wallet # procs[p].wallet

\* C3: at most one transaction holds a wallet's row lock at a time, and every
\* wallet's balance is its starting balance minus the committed debits plus
\* the committed credits (and reversals): no update is lost.
C3_NoLostUpdates ==
    \A w \in DOMAIN balance :
        /\ Cardinality(lockHolders[w]) <= 1
        /\ balance[w] = StartBalance(w) + LedgerSum(w, Len(ledger))

\* C3 witness: a debit and a credit with different ids meet on one wallet, one
\* holding the row lock with its entry written, the other waiting for the lock.
C3_Witness ==
    \E p, q \in Procs :
        /\ procs[p].pc = "commit"
        /\ procs[q].pc = "lock"
        /\ procs[p].wallet = procs[q].wallet
        /\ p \in lockHolders[procs[p].wallet]
        /\ {procs[p].op, procs[q].op} = {"debit", "credit"}
        /\ procs[p].tid # procs[q].tid

\* C4: a balance changes only in the step that commits a ledger entry whose
\* id was not in the ledger before, and it changes by that entry's amount; so
\* of the requests that carry one id at most one commits and the balance moves
\* once.
C4_ExactlyOnce ==
    [][\A w \in DOMAIN balance :
          balance'[w] # balance[w] =>
            /\ Len(ledger') = Len(ledger) + 1
            /\ LET e == ledger'[Len(ledger')] IN
                /\ ~(\E i \in DOMAIN ledger : ledger[i].tid = e.tid)
                /\ e.wallet = w
                /\ balance'[w] - balance[w] = Signed(e)]_vars

\* C4 witness: two requests with one id both passed the pre-check on the same
\* wallet; one has committed its entry, the other's insert was refused.
C4_Witness ==
    \E p \in Procs :
        /\ Done(p)
        /\ procs[p].path = "uniqueViolation"
        /\ procs[p].op \in {"debit", "credit"}
        /\ \E e \in Entries :
            /\ e.tid = procs[p].tid
            /\ e.wallet = procs[p].wallet
            /\ e.kind = procs[p].op
            /\ e.amount > 0

\* C5: a second debit with the id of a committed debit gets the reply the
\* first one got (same success, balance, currency, status).
C5_DebitIdempotent ==
    \A p \in Procs :
        (Done(p) /\ procs[p].op = "debit" /\ procs[p].path = "duplicate"
            /\ procs[p].snap.kind = "debit")
        => procs[p].resp = FirstResponse(procs[p].snap)

\* C6: a second credit with the id of a committed credit (amount 0 included)
\* gets the reply the first one got.
C6_CreditIdempotent ==
    \A p \in Procs :
        (Done(p) /\ procs[p].op = "credit" /\ procs[p].path = "duplicate"
            /\ procs[p].snap.kind = "credit")
        => procs[p].resp = FirstResponse(procs[p].snap)

\* C7: a second rollback with the own id of a recorded rollback (reversal,
\* tombstone or marker) gets the reply the first one got (same rolledBack,
\* balance, currency, message).
C7_RollbackIdempotent ==
    \A p \in Procs :
        (Done(p) /\ procs[p].op = "rollback" /\ procs[p].path = "duplicate"
            /\ procs[p].snap.kind = "rollback")
        => procs[p].resp = FirstResponse(procs[p].snap)

C9_ReversedAtMostOnce ==
    \A d \in Entries :
        d.kind = "debit" =>
            Cardinality({i \in DOMAIN ledger :
                            /\ ledger[i].kind = "rollback"
                            /\ ledger[i].related = d.tid
                            /\ ledger[i].amount > 0}) <= 1

\* C10: a rollback of a debit that an earlier rollback with a different own
\* id has already reversed records a marker entry (amount 0, is_rollback,
\* alreadyRolledBack) and reports rolledBack = true / already rolled back.
C10_DoubleRollbackMarker ==
    \A p \in Procs :
        (Done(p) /\ procs[p].op = "rollback" /\ procs[p].path # "duplicate"
            /\ procs[p].snap.kind = "debit" /\ procs[p].snap.is_rollback
            /\ \E r \in Entries :
                /\ r.kind = "rollback"
                /\ r.related = procs[p].snap.tid
                /\ r.amount > 0
                /\ r.tid # procs[p].tid)
        => /\ procs[p].resp.rolledBack
           /\ procs[p].resp.message = MsgAlreadyRolledBack
           /\ \E e \in Entries :
                /\ e.tid = procs[p].tid
                /\ e.kind = "rollback"
                /\ e.amount = 0
                /\ e.is_rollback
                /\ e.cache = "alreadyRolledBack"

\* the last entry on the wallet before position n of the ledger (0: none)
PrevOnWallet(walletId, n) ==
    LET before == {i \in 1..(n - 1) : ledger[i].wallet = walletId} IN
        IF before = {} THEN 0 ELSE CHOOSE i \in before : \A k \in before : k <= i

\* a request has just committed the reversal of the debit that is the
\* previous entry on the wallet
ReversalRightAfterDebit(p) ==
    /\ Done(p)
    /\ procs[p].op = "rollback"
    /\ procs[p].path = "fresh"
    /\ LET n == Len(ledger)
           j == PrevOnWallet(ledger[n].wallet, n) IN
        /\ j # 0
        /\ ledger[j].kind = "debit"
        /\ ledger[j].tid = ledger[n].related

\* C11: a successful debit of amount A immediately followed (on its wallet) by
\* the successful rollback of that debit leaves the wallet at its pre-debit
\* balance, and the rollback entry's amount is A.
C11_RollbackCancelsDebit ==
    \A p \in Procs :
        ReversalRightAfterDebit(p) =>
            LET n == Len(ledger)
                w == ledger[n].wallet
                j == PrevOnWallet(w, n)
                preDebit == StartBalance(w) + LedgerSum(w, j - 1) IN
                /\ ledger[n].tid = procs[p].tid
                /\ ledger[n].amount = ledger[j].amount
                /\ balance[w] = preDebit
                /\ procs[p].resp.balance = preDebit

\* C11 witness: a debit of amount 1 has been reversed by the next operation
\* on its wallet.
C11_Witness ==
    \E p \in Procs :
        /\ ReversalRightAfterDebit(p)
        /\ ledger[Len(ledger)].amount = 1
        /\ ledger[Len(ledger)].kind = "rollback"

\* C12: a rollback with an unused own id whose original is a credit entry
\* fails with CANNOT_ROLLBACK_PAYOUT (HTTP 400) and records no entry.
C12_PayoutRollbackRejected ==
    \A p \in Procs :
        (Done(p) /\ procs[p].op = "rollback" /\ procs[p].snap.kind = "credit"
            /\ procs[p].path \notin {"duplicate", "uniqueViolation"})
        => /\ procs[p].resp.status = 400
           /\ procs[p].resp.code = "CANNOT_ROLLBACK_PAYOUT"
           /\ ~(\E e \in Entries :
                    e.tid = procs[p].tid /\ e.kind = "rollback" /\ e.related = procs[p].orig)

\* C13: once a credit naming a bet (relatedTransactionId) is committed, no
\* later rollback reverses that bet: no reversal entry (amount > 0) of the
\* bet follows the credit in the ledger.
C13_NoRollbackAfterPayout ==
    \A i, j, k \in DOMAIN ledger :
        ~(/\ ledger[i].kind = "debit"
          /\ ledger[j].kind = "credit"
          /\ ledger[j].related = ledger[i].tid
          /\ i < j
          /\ j < k
          /\ ledger[k].kind = "rollback"
          /\ ledger[k].related = ledger[i].tid
          /\ ledger[k].amount > 0)

\* C14: a rollback that took the tombstone path has appended exactly one
\* entry with its own id: a rollback entry with amount 0, is_rollback set,
\* related id = the original id, response_cache.tombstone, on its session's
\* wallet, whose balance_after is the wallet's current balance; it reports
\* rolledBack = true.
C14_Tombstone ==
    \A p \in Procs :
        (Done(p) /\ procs[p].path = "tombstone") =>
            LET e == ledger[Len(ledger)] IN
                /\ Cardinality({i \in DOMAIN ledger : ledger[i].tid = procs[p].tid}) = 1
                /\ e.tid = procs[p].tid
                /\ e.kind = "rollback"
                /\ e.amount = 0
                /\ e.is_rollback
                /\ e.related = procs[p].orig
                /\ e.cache = "tombstone"
                /\ e.wallet = sessions[procs[p].token].wallet
                /\ e.balance_after = balance[e.wallet]
                /\ procs[p].resp.status = 200
                /\ procs[p].resp.rolledBack

\* C15: once a tombstone is recorded for original id X, no debit carrying
\* transactionId X is committed afterwards.
C15_TombstoneFailsClosed ==
    \A i, j \in DOMAIN ledger :
        ~(/\ i < j
          /\ ledger[i].cache = "tombstone"
          /\ ledger[j].kind = "debit"
          /\ ledger[j].tid = ledger[i].related)

\* C16: a debit, credit or rollback with an unused own id whose sessionToken
\* resolves to no session fails with INVALID_SESSION (HTTP 401); for a
\* rollback this covers an unknown original and an un-reversed debit.
C16_SessionGating ==
    \A p \in Procs :
        (Done(p) /\ procs[p].op \in {"debit", "credit", "rollback"}
            /\ procs[p].token \notin DOMAIN sessions
            /\ procs[p].path \notin {"duplicate", "uniqueViolation"}
            /\ procs[p].snap.kind \in {"none", "debit"}
            /\ ~procs[p].snap.is_rollback)
        => /\ procs[p].resp.status = 401
           /\ procs[p].resp.code = "INVALID_SESSION"

\* C17: a callback carrying the token of a session that has changed a
\* balance or appended an entry has done so on that session's wallet.
C17_SessionWalletOnly ==
    \A p \in Procs :
        (Done(p) /\ procs[p].path \in {"fresh", "tombstone", "marker"}
            /\ procs[p].token \in DOMAIN sessions) =>
            /\ ledger[Len(ledger)].tid = procs[p].tid
            /\ ledger[Len(ledger)].wallet = sessions[procs[p].token].wallet

\* C18: a debit that, holding an active session and an unused id, finds
\* under the wallet lock a balance below its amount fails with
\* INSUFFICIENT_FUNDS (HTTP 400) and leaves balances and ledger unchanged.
C18_InsufficientFunds ==
    [][\A p \in Procs :
          (/\ procs[p].pc = "lock"
           /\ procs[p].op = "debit"
           /\ procs'[p].pc # "lock"
           /\ balance[procs[p].wallet] < procs[p].amount)
          => /\ procs'[p].pc = "done"
             /\ procs'[p].resp.status = 400
             /\ procs'[p].resp.code = "INSUFFICIENT_FUNDS"
             /\ balance' = balance
             /\ ledger' = ledger
             /\ lockHolders' = lockHolders]_vars

\* C18 witness: a debit of more than the wallet holds, after earlier entries
\* on the ledger, has been refused with HTTP 400.
C18_Witness ==
    \E p \in Procs :
        /\ Done(p)
        /\ procs[p].op = "debit"
        /\ procs[p].resp.status = 400
        /\ procs[p].resp.code = "INSUFFICIENT_FUNDS"
        /\ balance[procs[p].wallet] < procs[p].amount
        /\ ledger # <<>>
        /\ ~(\E e \in Entries : e.tid = procs[p].tid)

C20_GetBalanceReadOnly ==
    [][\A p \in Procs :
          (procs[p].op = "getBalance" /\ procs'[p] # procs[p])
          => /\ balance' = balance
             /\ sessions' = sessions
             /\ ledger' = ledger
             /\ (procs'[p].pc = "done" /\ procs'[p].path = "read") =>
                    LET walletId == sessions[procs[p].token].wallet IN
                        procs'[p].resp = OkResponse(balance[walletId], CurrencyOf(walletId))]_vars

\* C20 witness: a getBalance on an active session has been answered after a
\* debit emptied the wallet.
C20_Witness ==
    \E p \in Procs :
        /\ Done(p)
        /\ procs[p].op = "getBalance"
        /\ procs[p].path = "read"
        /\ procs[p].resp.balance = 0
        /\ \E e \in Entries : e.kind = "debit" /\ e.wallet = procs[p].wallet

\* the callback of p has gone past the signature gate
Admitted(p) ==
    /\ procs[p].secret # NoSecret
    /\ procs[p].pc \notin {"idle", "gate"}
    /\ procs[p].path \notin {"signature", "config"}

C23_TamperRejection ==
    \A p \in Procs :
        Admitted(p) => procs[p].sig = signBody(BodyOf(procs[p]), procs[p].secret)

\* C24: every entry that has an earlier entry on its wallet carries the
\* balance_after of the latest earlier one, changed by its own amount: less
\* the amount for a debit, plus the amount for a credit or a rollback of a
\* debit, unchanged for a tombstone or a marker.
C24_BalanceHistory ==
    \A n \in DOMAIN ledger :
        LET j == PrevOnWallet(ledger[n].wallet, n) IN
            j # 0 => ledger[n].balance_after = ledger[j].balance_after + Signed(ledger[n])

\* the rollback entries with a positive amount among the rows
Reversals(rows) ==
    {i \in DOMAIN rows : rows[i].kind = "rollback" /\ rows[i].amount > 0}

\* C25: every rollback entry with a positive amount names an existing debit
\* entry of the same amount that has is_rollback set; and the credit to the
\* wallet, the setting of the flag and the insertion of the entry become
\* visible in one step or not at all: a step that sets the flag of an entry
\* inserts the rollback entry naming it, a step that inserts such an entry
\* credits its amount to the wallet, and a rollback step that inserts no
\* entry changes neither a balance nor a flag.
C25_RollbackAtomicity ==
    [][/\ \A i \in Reversals(ledger') :
            \E j \in DOMAIN ledger' :
                /\ ledger'[j].tid = ledger'[i].related
                /\ ledger'[j].kind = "debit"
                /\ ledger'[j].amount = ledger'[i].amount
                /\ ledger'[j].is_rollback
       /\ \A j \in DOMAIN ledger :
            (~ledger[j].is_rollback /\ ledger'[j].is_rollback)
            => \E i \in Reversals(ledger') \ DOMAIN ledger :
                    ledger'[i].related = ledger[j].tid
       /\ \A i \in Reversals(ledger') \ DOMAIN ledger :
            LET w == ledger'[i].wallet IN
                /\ balance'[w] = balance[w] + ledger'[i].amount
                /\ ledger'[i].balance_after = balance'[w]
       /\ \A p \in Procs :
            (procs[p].op = "rollback" /\ procs'[p] # procs[p] /\ Len(ledger') = Len(ledger))
            => balance' = balance /\ ledger' = ledger]_vars

\* C25 witness: a rollback has just committed the reversal of a debit of
\* amount 1, which now carries is_rollback.
C25_Witness ==
    \E p \in Procs :
        /\ Done(p)
        /\ procs[p].op = "rollback"
        /\ procs[p].path = "fresh"
        /\ Len(ledger) \in Reversals(ledger)
        /\ \E e \in Entries :
            e.tid = procs[p].orig /\ e.kind = "debit" /\ e.amount = 1 /\ e.is_rollback

\* the entries of the third simulation's round, as (id, type, amount,
\* balance_after)
Scenario3Entries ==
    <<<<1, "debit", 2000, 8000>>, <<2, "debit", 1000, 7000>>,
      <<3, "credit", 3000, 10000>>, <<4, "rollback", 2000, 12000>>>>

Launching(proc) == proc.op = "launch" /\ proc.user # "" /\ proc.game # ""

\* the lookup on which the launch of proc has to fail, "" if on none
LookupFailure(proc) ==
    LET game == getGameById(proc.game)
        provider == getProviderById(game.provider_id) IN
        IF proc.user \notin Users THEN "USER_NOT_FOUND"
        ELSE IF proc.game \notin DOMAIN GamesTable \/ ~game.is_active THEN "GAME_NOT_FOUND"
        ELSE IF game.provider_id \notin DOMAIN ProvidersTable \/ provider.is_disabled
             THEN "PROVIDER_NOT_FOUND"
        ELSE ""

\* C27: a launch fails with USER_NOT_FOUND if its user is absent, otherwise
\* with GAME_NOT_FOUND if its game is absent or inactive, otherwise with
\* PROVIDER_NOT_FOUND if the game's provider is absent or disabled (each HTTP
\* 404); no step of such a launch creates a wallet or a session, and it
\* never gets to the steps that do.
C27_LaunchLookupFailures ==
    [][\A p \in Procs :
          (/\ Launching(procs[p])
           /\ LookupFailure(procs[p]) # ""
           /\ procs[p].pc # "done"
           /\ procs'[p] # procs[p])
          => /\ balance' = balance
             /\ sessions' = sessions
             /\ procs'[p].pc \in {"game", "provider", "done"}
             /\ procs'[p].pc = "done"
                => /\ procs'[p].resp.code = LookupFailure(procs[p])
                   /\ procs'[p].resp.status = 404]_vars

\* C27 witness: after a launch has created a session, a launch of a game
\* whose provider is disabled has been answered PROVIDER_NOT_FOUND.
C27_Witness ==
    \E p \in Procs :
        /\ Done(p)
        /\ procs[p].op = "launch"
        /\ procs[p].game = "blocked"
        /\ procs[p].resp.code = "PROVIDER_NOT_FOUND"
        /\ DOMAIN sessions # {}

\* C28: a launch whose call to the provider fails is still answered with
\* success and its session token; its session is active, has no
\* provider_session_id and answers callbacks; and a provider_session_id is
\* only ever set by the launch that created the session, after the provider
\* acknowledged it.
C28_ProviderFailureNonFatal ==
    [][/\ \A p \in Procs :
            (procs[p].pc = "providerCall" /\ procs'[p] # procs[p])
            => /\ procs'[p].pc \in {"attach", "respond"}
               /\ sessions' = sessions
       /\ \A p \in Procs :
            (procs'[p].pc = "done" /\ procs'[p].op = "launch"
             /\ procs'[p].path \in {"providerFailed", "providerRefused"})
            => /\ procs'[p].resp.status = 200
               /\ procs'[p].sess \in DOMAIN sessions'
               /\ sessions'[procs'[p].sess].active
               /\ sessions'[procs'[p].sess].provider_session_id = NoProviderSession
       /\ \A t \in DOMAIN sessions :
            sessions'[t].provider_session_id # sessions[t].provider_session_id
            => \E p \in Procs : procs[p].pc = "attach" /\ procs[p].sess = t
       /\ \A p \in Procs :
            (procs'[p].pc = "done" /\ procs'[p].op = "getBalance"
             /\ procs'[p].token \in DOMAIN sessions')
            => procs'[p].resp.status = 200]_vars

\* C28 witness: a getBalance on the session of a launch whose provider call
\* failed has been answered 200.
C28_Witness ==
    \E p \in Procs :
        /\ Done(p)
        /\ procs[p].op = "getBalance"
        /\ procs[p].resp.status = 200
        /\ procs[p].token \in DOMAIN sessions
        /\ sessions[procs[p].token].provider_session_id = NoProviderSession
        /\ \A q \in Procs : procs[q].op # "launch"

\* C29: there is at most one wallet per (user, currency); no launch step
\* changes the balance of an existing wallet; a wallet is created with
\* playable_balance 0; sessions appear one at a time, each active, without
\* provider_session_id, bound to the wallet of its launch's user and
\* currency; and a launch answered with success has created one.
C29_LaunchGetOrCreate ==
    [][/\ \A w1, w2 \in DOMAIN balance' :
            (w1[1] = w2[1] /\ w1[2] = w2[2]) => w1 = w2
       /\ \A w \in DOMAIN balance : w \in DOMAIN balance' /\ balance'[w] = balance[w]
       /\ \A w \in DOMAIN balance' \ DOMAIN balance : balance'[w] = 0
       /\ DOMAIN sessions' # DOMAIN sessions
          => \E p \in Procs, t \in DOMAIN sessions' \ DOMAIN sessions :
                /\ DOMAIN sessions' = DOMAIN sessions \cup {t}
                /\ procs[p].pc = "sessionInsert"
                /\ procs'[p].sess = t
                /\ sessions'[t] =
                     [user |-> procs[p].user,
                      wallet |-> getWallet(procs[p].user, procs[p].currency),
                      active |-> TRUE, provider_session_id |-> NoProviderSession]
       /\ \A p \in Procs :
            (procs[p].op = "launch" /\ procs[p].pc # "done" /\ procs'[p].pc = "done"
             /\ procs'[p].resp.status = 200)
            => /\ procs[p].sess \in DOMAIN sessions
               /\ sessions[procs[p].sess].wallet
                     = getWallet(procs[p].user, procs[p].currency)
               /\ sessions[procs[p].sess].active]_vars

\* C29 witness: a launch has created the player's EUR wallet with balance 0
\* and has been answered with success.
C29_Witness ==
    \E p \in Procs :
        /\ Done(p)
        /\ procs[p].op = "launch"
        /\ procs[p].resp.status = 200
        /\ procs[p].currency = "EUR"
        /\ Len(procs[p].wallet) = 3
        /\ balance[procs[p].wallet] = 0
        /\ sessions[procs[p].sess].wallet = procs[p].wallet

\* C30: every launch of an existing user and an available game, for a
\* currency in which the user had no wallet at the start, is answered with
\* success and its session is bound to the one wallet of that user and
\* currency, whether or not another such launch runs at the same time.
C30_ConcurrentLaunch ==
    \A p \in Procs :
        (/\ Done(p)
         /\ Launching(procs[p])
         /\ LookupFailure(procs[p]) = ""
         /\ WalletOf(procs[p].user, procs[p].currency) \notin DOMAIN SeededWallets)
        => /\ procs[p].resp.status = 200
           /\ procs[p].sess \in DOMAIN sessions
           /\ sessions[procs[p].sess].wallet = getWallet(procs[p].user, procs[p].currency)

\* C31: a credit with amount 0 on an active session passes validation; with
\* an id that is unused when its row is inserted it commits, answers 200 with
\* the wallet's balance, appends exactly one credit entry of amount 0 whose
\* balance_after is that balance, and leaves every wallet balance as it was.
C31_ZeroAmountCredit ==
    [][\A p \in Procs :
          (procs[p].op = "credit" /\ procs[p].amount = 0 /\ procs'[p] # procs[p])
          => /\ (procs[p].pc = "session" /\ getSessionByToken(procs[p].token) # NoSession)
                => procs'[p].pc = "lock"
             /\ (procs[p].pc = "insert" /\ getTransactionByExternalId(procs[p].tid) = NoTxn)
                => procs'[p].pc = "commit"
             /\ procs[p].pc = "commit"
                => LET w == procs[p].wallet IN
                    /\ procs'[p].pc = "done"
                    /\ procs'[p].resp = OkResponse(balance[w], CurrencyOf(w))
                    /\ balance' = balance
                    /\ Len(ledger') = Len(ledger) + 1
                    /\ SubSeq(ledger', 1, Len(ledger)) = ledger
                    /\ LET e == ledger'[Len(ledger')] IN
                        /\ e.tid = procs[p].tid
                        /\ e.kind = "credit"
                        /\ e.amount = 0
                        /\ e.wallet = w
                        /\ e.balance_after = balance[w]]_vars

\* C31 witness: a credit of amount 0 has been committed on a wallet that a
\* debit had emptied before.
C31_Witness ==
    \E p \in Procs :
        /\ Done(p)
        /\ procs[p].op = "credit"
        /\ procs[p].amount = 0
        /\ procs[p].path = "fresh"
        /\ ledger[Len(ledger)].tid = procs[p].tid
        /\ ledger[Len(ledger)].balance_after = 0
        /\ Len(ledger) = 2

\* C32: a rollback with an unused own id whose original is an entry of kind
\* rollback (a reversal, a tombstone or a marker) takes the branch of the
\* already reversed original: it answers 200 with rolledBack = false, and no
\* step of it inserts an entry or changes a balance.
C32_RollbackOfRollback ==
    [][\A p \in Procs :
          (procs[p].op = "rollback" /\ procs'[p] # procs[p])
          => /\ (/\ procs[p].pc = "orig"
                 /\ getTransactionByExternalId(procs[p].orig).kind = "rollback")
                => /\ procs'[p].pc = "rbWallet"
                   /\ ledger' = ledger
                   /\ balance' = balance
             /\ (procs[p].pc = "rbWallet" /\ procs[p].snap.kind = "rollback")
                => /\ procs'[p].pc = "done"
                   /\ procs'[p].resp.status = 200
                   /\ ~procs'[p].resp.rolledBack
                   /\ procs'[p].resp.message = MsgRollbackOfRollback
                   /\ ledger' = ledger
                   /\ balance' = balance]_vars

\* C32 witness: a rollback naming a recorded tombstone as its original has
\* been answered rolledBack = false.
C32_Witness ==
    \E p \in Procs :
        /\ Done(p)
        /\ procs[p].op = "rollback"
        /\ procs[p].path = "rollbackOfRollback"
        /\ procs[p].snap.kind = "rollback"
        /\ procs[p].snap.cache = "tombstone"
        /\ ~procs[p].resp.rolledBack

\* C33: a debit or credit whose id names a ledger entry of any kind, whatever
\* its own session token and amount, goes to the duplicate path, inserts
\* nothing, changes no balance and answers with the response stored with
\* that entry.
C33_DuplicateKindAgnostic ==
    [][\A p \in Procs :
          (procs[p].op \in {"debit", "credit"} /\ procs'[p] # procs[p])
          => /\ (procs[p].pc = "check" /\ getTransactionByExternalId(procs[p].tid) # NoTxn)
                => /\ procs'[p].pc = "dupWallet"
                   /\ ledger' = ledger
                   /\ balance' = balance
             /\ procs[p].pc = "dupWallet"
                => /\ procs'[p].pc = "done"
                   /\ ledger' = ledger
                   /\ balance' = balance
                   /\ procs'[p].resp = FirstResponse(procs[p].snap)]_vars

\* the session of the token has been ended
Ended(token) == token \in DOMAIN sessions /\ ~sessions[token].active

\* C34: ending a session makes it inactive and changes no balance and no
\* ledger entry; an ended session resolves to nothing, so a getBalance and a
\* debit or credit with an unused id that resolve their token after the end
\* fail with INVALID_SESSION (HTTP 401); and an ended session stays in the
\* table and is never active again.
C34_SessionLifecycle ==
    [][/\ \A t \in DOMAIN sessions :
            /\ t \in DOMAIN sessions'
            /\ ~sessions[t].active => ~sessions'[t].active
            /\ (sessions[t].active /\ ~sessions'[t].active)
               => /\ balance' = balance
                  /\ ledger' = ledger
                  /\ getSessionByToken(t)' = NoSession
       /\ \A p \in Procs :
            (/\ procs'[p] # procs[p]
             /\ Ended(procs[p].token)
             /\ \/ procs[p].pc = "gbSession"
                \/ procs[p].pc = "session" /\ procs[p].op \in {"debit", "credit"})
            => /\ procs'[p].pc = "done"
               /\ procs'[p].resp.code = "INVALID_SESSION"
               /\ procs'[p].resp.status = 401
               /\ balance' = balance
               /\ ledger' = ledger]_vars

\* C34 witness: after a debit was recorded and the session was ended, a
\* debit with an unused id on that session has been answered INVALID_SESSION.
C34_Witness ==
    \E p \in Procs :
        /\ Done(p)
        /\ procs[p].op = "debit"
        /\ Ended(procs[p].token)
        /\ procs[p].resp.code = "INVALID_SESSION"
        /\ getTransactionByExternalId(procs[p].tid) = NoTxn
        /\ Len(ledger) > 0

\* the request in slot p holds a wallet row lock
HoldsLock(p) == \E w \in DOMAIN lockHolders : p \in lockHolders[w]

C36_AppendOnly ==
    [][/\ Len(ledger') >= Len(ledger)
       /\ \A i \in DOMAIN ledger :
            /\ [ledger'[i] EXCEPT !.is_rollback = ledger[i].is_rollback] = ledger[i]
            /\ ledger'[i].is_rollback # ledger[i].is_rollback
               => /\ ~ledger[i].is_rollback
                  /\ ledger'[i].is_rollback
                  /\ ledger[i].kind = "debit"
                  /\ Len(ledger') = Len(ledger) + 1
                  /\ ledger'[Len(ledger')].kind = "rollback"
                  /\ ledger'[Len(ledger')].related = ledger[i].tid
                  /\ ledger'[Len(ledger')].amount = ledger[i].amount
                  /\ ledger'[Len(ledger')].wallet = ledger[i].wallet]_vars

\* C36 witness: the ledger is a debit of amount 1 that took the seeded wallet
\* to 0 and now carries is_rollback, followed by the rollback entry that
\* reversed it, and every request has been answered.
C36_Witness ==
    /\ Len(ledger) = 2
    /\ ledger[1].kind = "debit"
    /\ ledger[1].amount = 1
    /\ ledger[1].balance_after = SeedBalance1 - 1
    /\ ledger[1].is_rollback
    /\ ledger[2].kind = "rollback"
    /\ ledger[2].related = ledger[1].tid
    /\ ledger[2].amount = 1
    /\ \A p \in Procs : Free(p)

\* the ledger holds an entry with this external_transaction_id
IdUsed(externalId) == \E i \in DOMAIN ledger : ledger[i].tid = externalId

FailureCodes == {"INSUFFICIENT_FUNDS", "INVALID_AMOUNT", "INVALID_SESSION"}

\* C37: the step in which a debit or credit fails (INSUFFICIENT_FUNDS,
\* INVALID_AMOUNT, INVALID_SESSION, or an abort of its transaction) writes no
\* ledger entry, changes no balance and leaves the request without a lock, so
\* an id that was unused stays unused; a debit or credit whose id is unused is
\* never answered from the duplicate path but goes on to the session and
\* amount checks; and when it commits, it appends the one entry with its id
\* and the balance of its wallet moves by that entry's amount, once.
C37_FailureKeepsId ==
    [][\A p \in Procs :
          (procs[p].op \in {"debit", "credit"} /\ procs'[p] # procs[p])
          => /\ (procs'[p].pc = "done" /\ procs'[p].resp.status # 200)
                => /\ ledger' = ledger
                   /\ balance' = balance
                   /\ \A w \in DOMAIN lockHolders' : p \notin lockHolders'[w]
                   /\ ~IdUsed(procs[p].tid) => ~IdUsed(procs[p].tid)'
             /\ (procs[p].pc = "check" /\ ~IdUsed(procs[p].tid))
                => procs'[p].pc = "session"
             /\ (procs[p].pc = "session" /\ procs'[p].pc = "done")
                => procs'[p].resp.code \in FailureCodes
             /\ procs[p].pc = "commit"
                => /\ ~IdUsed(procs[p].tid)
                   /\ ledger' = Append(ledger, ledger'[Len(ledger')])
                   /\ ledger'[Len(ledger')].tid = procs[p].tid
                   /\ ledger'[Len(ledger')].kind = procs[p].op
                   /\ balance' = [balance EXCEPT ![procs[p].wallet] =
                                    @ + Signed(ledger'[Len(ledger')])]]_vars

\* C37 witness: a debit has just failed with INVALID_AMOUNT, INVALID_SESSION
\* or INSUFFICIENT_FUNDS, the ledger holds no entry with its id, and another
\* request with the same id has passed its checks and is about to commit.
C37_Witness ==
    \E p, q \in Procs :
        /\ Done(p)
        /\ procs[p].op = "debit"
        /\ procs[p].resp.code \in FailureCodes
        /\ ~IdUsed(procs[p].tid)
        /\ procs[q].pc = "commit"
        /\ procs[q].op \in {"debit", "credit"}
        /\ procs[q].tid = procs[p].tid

\* C38: every error reply of a callback route and of the signature gate in
\* front of it carries a non-empty code (the body is { success: false, error,
\* code }), and a reply with HTTP 500 to an error that carries no code of its
\* own has the code INTERNAL_ERROR.
C38_ErrorShape ==
    \A p \in Procs :
        (Done(p) /\ procs[p].resp.status >= 400)
        => /\ procs[p].resp.code # ""
           /\ procs[p].path = "config" => procs[p].resp.code = "INTERNAL_ERROR"

\* the sum of the amounts of the first n entries of one kind on one wallet
RECURSIVE KindSum(_, _, _)
KindSum(walletId, kind, n) ==
    IF n = 0 THEN 0
    ELSE KindSum(walletId, kind, n - 1)
         + (IF ledger[n].wallet = walletId /\ ledger[n].kind = kind
            THEN ledger[n].amount ELSE 0)

\* C39: in every committed state each wallet's playable_balance is its
\* starting balance minus the amounts of its debit entries plus the amounts of
\* its credit entries plus the amounts of its rollback entries; a balance
\* changes only in a step that appends an entry on that wallet, and an
\* appended entry with a non-zero amount comes with the change of its
\* wallet's balance by that amount.
C39_LedgerConservation ==
    /\ [](\A w \in DOMAIN balance :
            balance[w] = StartBalance(w)
                         - KindSum(w, "debit", Len(ledger))
                         + KindSum(w, "credit", Len(ledger))
                         + KindSum(w, "rollback", Len(ledger)))
    /\ [][/\ \A w \in DOMAIN balance :
                balance'[w] # balance[w]
                => /\ Len(ledger') = Len(ledger) + 1
                   /\ ledger'[Len(ledger')].wallet = w
                   /\ ledger'[Len(ledger')].amount # 0
          /\ (Len(ledger') > Len(ledger) /\ ledger'[Len(ledger')].amount # 0)
             => LET e == ledger'[Len(ledger')] IN
                   /\ Len(ledger') = Len(ledger) + 1
                   /\ balance'[e.wallet] =
                        balance[e.wallet]
                        + (IF e.kind = "debit" THEN 0 - e.amount ELSE e.amount)]_vars

\* C39 witness: one wallet has a debit, a credit and a reversing rollback
\* entry, each of amount 1, and its balance is the seeded 1 - 1 + 1 + 1.
C39_Witness ==
    \E w \in DOMAIN balance :
        /\ KindSum(w, "debit", Len(ledger)) = 1
        /\ KindSum(w, "credit", Len(ledger)) = 1
        /\ KindSum(w, "rollback", Len(ledger)) = 1
        /\ balance[w] = SeedBalance1 + 1

====
